---- MODULE Spec2Model ----
(***************************************************************************)
(* Model of RobotLocalizationDisplay (robot_localization_display.py): the  *)
(* main loop  handle_events -> update_pose_data -> check_apriltag_in_fov,  *)
(* the alliance menu, the pose estimator and the simulated vision sensor.  *)
(*                                                                         *)
(* Python floats are modelled in fixed point:                              *)
(*   lengths            millimetres                                        *)
(*   time               milliseconds                                       *)
(*   linear velocity    millimetres per second                             *)
(*   radian quantities  1/2880 of pi  (PI = 2880, i.e. 1/16 degree)        *)
(*   degree quantities  1/32 of a degree (180 degrees = 5760)              *)
(*   angular velocity   radian units per second                            *)
(*   Target_Area        1/100 of a percent                                 *)
(* Divisions round to the nearest unit, as a float rounds to the nearest   *)
(* representable value.                                                    *)
(***************************************************************************)
EXTENDS Integers, Sequences, FiniteSets

\* ---------------------------------------------------------------- bounds
\* Number of loop iterations (ticks) explored.
MaxTicks == 2
\* Largest tag set handed to the vision check on its own (SpecVision).
MaxTags == 2
\* Whole turns, either way, by which an angle is shifted when periodicity is checked.
MaxTurns == 2
\* Number of ticks over which raw angles are held (SpecHold).
HoldTicks == 24

\* ------------------------------------------------------------- constants
SCREEN_WIDTH == 1340
SCREEN_HEIGHT == 670
FIELD_WIDTH_M == 16460
ROBOT_WIDTH_M == 610
ROBOT_LENGTH_M == 810
\* 62.5 degrees
VISION_FOV_H == 2000
\* 1.85 m
VISION_MAX_DISTANCE_M == 1850
\* 0.15, in percent
TURRET_SMOOTHING == 15
\* 0.3, in percent
smoothing_factor == 30
APRILTAG_SIZE_M == 200
APRILTAG_MARGIN_M == 300
\* math.pi
PI == 2880
\* 180 degrees, the half turn of the turret's wraparound loop
HALF_TURN_DEG == 5760
\* dt > 0.001 s guards the velocity derivation
DT_GUARD == 1
TARGET_FPS == 60
\* start pose of setup_robot_for_alliance: 0.5 m
START_POS == 500
\* Target_ID default and "no target" id
NO_TARGET_ID == -1
\* area is clamped into [0.1, 100.0] percent
AREA_MIN == 10
AREA_MAX == 10000

\* Python's None for the alliance attribute.
None == "None"

\* Python's None for a dict-valued attribute (detected_target,
\* apriltag_positions): the value with no keys.  The code never builds an
\* empty dict, so the two cannot be confused.
NoneDict == <<>>

\* --------------------------------------------------------------- helpers
Abs(a) == IF a < 0 THEN -a ELSE a

Max(a, b) == IF a >= b THEN a ELSE b

Min(a, b) == IF a <= b THEN a ELSE b

\* a / b rounded to the nearest integer (b > 0): float division.
RoundDiv(a, b) == (2 * a + b) \div (2 * b)

RECURSIVE SqrtSearch(_, _, _)
SqrtSearch(n, lo, hi) ==
    IF lo >= hi THEN lo
    ELSE LET mid == (lo + hi) \div 2
         IN IF mid * mid >= n THEN SqrtSearch(n, lo, mid)
            ELSE SqrtSearch(n, mid + 1, hi)

\* math.sqrt on the millimetre grid: the least r with r*r >= n, so that
\* sqrt(n) > d  holds exactly when n > d*d  and sqrt(n) = 0 only for n = 0.
Sqrt(n) == SqrtSearch(n, 0, 32768)

\* math.radians / math.degrees between the two angle scales.
Radians(d) == RoundDiv(d, 2)

Degrees(r) == 2 * r

RECURSIVE NormalizeHalfOpen(_, _)
NormalizeHalfOpen(a, half) ==
    IF a > half THEN NormalizeHalfOpen(a - 2 * half, half)
    ELSE IF a <= -half THEN NormalizeHalfOpen(a + 2 * half, half)
    ELSE a

NormalizeOnce(a, half) ==
    IF a > half THEN a - 2 * half
    ELSE IF a < -half THEN a + 2 * half
    ELSE a

NormalizeNone(a, half) == a

\* The wraparound loops "while a > half: a -= 2*half; while a < -half: a += 2*half".
RECURSIVE NormalizeAngle(_, _)
NormalizeAngle(a, half) ==
    IF a > half THEN NormalizeAngle(a - 2 * half, half)
    ELSE IF a < -half THEN NormalizeAngle(a + 2 * half, half)
    ELSE a

\* atan of n/d for 0 <= n <= d, d > 0, in radian units:
\* z*(pi/4) + 0.273*z*(1-z), accurate to about 0.25 degree.
AtanOctant(n, d) ==
    LET z == (4096 * n) \div d
    IN RoundDiv(720 * z + (250 * z * (4096 - z)) \div 4096, 4096)

\* atan of |y|/|x| in the first quadrant, 0 .. PI/2.
AtanQuadrant(ay, ax) ==
    IF ay <= ax THEN AtanOctant(ay, ax) ELSE (PI \div 2) - AtanOctant(ax, ay)

\* math.atan2(dy, dx), result in (-PI, PI]; atan2(0, 0) = 0.
Atan2(dy, dx) ==
    IF dx = 0 /\ dy = 0 THEN 0
    ELSE LET q == AtanQuadrant(Abs(dy), Abs(dx))
         IN IF dx >= 0 THEN (IF dy >= 0 THEN q ELSE -q)
            ELSE (IF dy >= 0 THEN PI - q ELSE q - PI)

\* table.getNumber(key, default) / getBoolean(key, default)
\* A table is a function from the keys present in it to their values.
GetNumber(table, key, default) ==
    IF key \in DOMAIN table THEN table[key] ELSE default

\* ------------------------------------------------------- field geometry
field_height_m == (FIELD_WIDTH_M * SCREEN_HEIGHT) \div SCREEN_WIDTH

half_diagonal ==
    Sqrt(ROBOT_LENGTH_M * ROBOT_LENGTH_M + ROBOT_WIDTH_M * ROBOT_WIDTH_M) \div 2

ClampAxisStrict(v, field_max) ==
    Max(0 + half_diagonal + 1, Min(field_max - half_diagonal - 1, v))

\* clamp_to_field_bounds, one axis: max(lo + hd, min(hi - hd, v))
ClampAxis(v, field_max) ==
    Max(0 + half_diagonal, Min(field_max - half_diagonal, v))

clamp_to_field_bounds(x, y) ==
    <<ClampAxis(x, FIELD_WIDTH_M), ClampAxis(y, field_height_m)>>

initialize_apriltags_fixed_ids(al) ==
    << [key |-> "bottom_left", id |-> 1, x |-> APRILTAG_MARGIN_M,
        y |-> APRILTAG_MARGIN_M, size |-> APRILTAG_SIZE_M],
       [key |-> "bottom_right", id |-> 2, x |-> FIELD_WIDTH_M - APRILTAG_MARGIN_M,
        y |-> APRILTAG_MARGIN_M, size |-> APRILTAG_SIZE_M] >>

initialize_apriltags_same_corner(al) ==
    << [key |-> "bottom_left", id |-> 1, x |-> APRILTAG_MARGIN_M,
        y |-> APRILTAG_MARGIN_M, size |-> APRILTAG_SIZE_M],
       [key |-> "bottom_right", id |-> 2, x |-> APRILTAG_MARGIN_M,
        y |-> APRILTAG_MARGIN_M, size |-> APRILTAG_SIZE_M] >>

\* initialize_apriltags: the dict of two tags, in insertion order.
initialize_apriltags(al) ==
    IF al = "blue"
    THEN << [key |-> "bottom_left", id |-> 2, x |-> APRILTAG_MARGIN_M,
             y |-> APRILTAG_MARGIN_M, size |-> APRILTAG_SIZE_M],
            [key |-> "bottom_right", id |-> 1, x |-> FIELD_WIDTH_M - APRILTAG_MARGIN_M,
             y |-> APRILTAG_MARGIN_M, size |-> APRILTAG_SIZE_M] >>
    ELSE << [key |-> "bottom_left", id |-> 1, x |-> APRILTAG_MARGIN_M,
             y |-> APRILTAG_MARGIN_M, size |-> APRILTAG_SIZE_M],
            [key |-> "bottom_right", id |-> 2, x |-> FIELD_WIDTH_M - APRILTAG_MARGIN_M,
             y |-> APRILTAG_MARGIN_M, size |-> APRILTAG_SIZE_M] >>

\* ------------------------------------------------------ vision geometry
\* distance = math.sqrt(dx**2 + dy**2)
TagDistance(tag, rx, ry) ==
    Sqrt((tag.x - rx) * (tag.x - rx) + (tag.y - ry) * (tag.y - ry))

\* angle_diff_deg: bearing of the tag minus the boresight, normalised, in degrees
TagAngleDiffDeg(tag, rx, ry, world) ==
    Degrees(NormalizeAngle(Atan2(tag.y - ry, tag.x - rx) - world, PI))

\* "if distance > VISION_MAX_DISTANCE_M: continue"
WithinRange(distance) == ~(distance > VISION_MAX_DISTANCE_M)

\* The FOV test with the boundary excluded.
WithinFovExclusive(angle_diff_deg) == 2 * Abs(angle_diff_deg) < VISION_FOV_H

\* "if abs(angle_diff_deg) <= VISION_FOV_H / 2"
WithinFov(angle_diff_deg) == 2 * Abs(angle_diff_deg) <= VISION_FOV_H

\* The comparison turned round: the farthest tag wins.
IsFarther(distance, closest) ==
    closest = NoneDict \/ distance > closest.distance

\* "if distance < closest_distance", closest_distance starting at infinity
IsCloser(distance, closest) ==
    closest = NoneDict \/ distance < closest.distance

TagAreaUnclamped(size, distance) == RoundDiv(size * 10000, distance)

\* max(0.1, min(100.0, (size / distance) * 100)), distance > 0
TagArea(size, distance) ==
    Max(AREA_MIN, Min(AREA_MAX, RoundDiv(size * 10000, distance)))

ZeroDivisionError == [error |-> "ZeroDivisionError"]

\* The body of "for tag_key, tag_data in self.apriltag_positions.items()",
\* from tag i on; closest is closest_tag so far (NoneDict for None).  The
\* result is closest_tag after the loop, or ZeroDivisionError when the area
\* of a tag at distance 0 is computed.
RECURSIVE ScanTags(_, _, _, _, _, _)
ScanTags(tags, i, closest, rx, ry, world) ==
    IF i > Len(tags) THEN closest
    ELSE LET tag == tags[i]
             distance == TagDistance(tag, rx, ry)
             angle_diff_deg == TagAngleDiffDeg(tag, rx, ry, world)
         IN IF ~WithinRange(distance)
            THEN ScanTags(tags, i + 1, closest, rx, ry, world)
            ELSE IF WithinFov(angle_diff_deg) /\ IsCloser(distance, closest)
            THEN IF distance = 0 THEN ZeroDivisionError
                 ELSE ScanTags(tags, i + 1,
                          [id |-> tag.id, yaw |-> angle_diff_deg, pitch |-> 0,
                           distance |-> distance,
                           area |-> TagArea(tag.size, distance),
                           tag_x |-> tag.x, tag_y |-> tag.y],
                          rx, ry, world)
            ELSE ScanTags(tags, i + 1, closest, rx, ry, world)

\* ----------------------------------------------------------------- state
VARIABLES
    pc,                    \* position in run(): handle_events, update_pose_data,
                           \* check_apriltag_in_fov, done, error
    last_op,               \* the operation that produced this state
    nticks,                \* completed loop iterations
    running, menu_active, alliance, simulation_active, odometry_active,
    apriltag_positions,
    robot_x, robot_y, robot_theta, prev_theta,
    smoothed_x, smoothed_y, smoothed_theta,
    robot_vx, robot_vy, robot_omega,
    smoothed_vx, smoothed_vy, smoothed_omega,
    turret_angle, smoothed_turret_angle,
    has_target, target_yaw, target_pitch, target_area, target_id,
    detected_target,
    last_update_time,
    pose_table,            \* NetworkTables 'Pose' as read by the last tick
    smart_dashboard,       \* NetworkTables 'SmartDashboard' as read by the last tick
    vision_table           \* NetworkTables 'Vision'

ctlVars == <<pc, last_op, nticks>>

modeVars == <<running, menu_active, alliance, simulation_active, odometry_active,
              apriltag_positions>>

poseVars == <<robot_x, robot_y, robot_theta, prev_theta>>

smoothedPoseVars == <<smoothed_x, smoothed_y, smoothed_theta>>

velVars == <<robot_vx, robot_vy, robot_omega, smoothed_vx, smoothed_vy, smoothed_omega>>

turretVars == <<turret_angle, smoothed_turret_angle>>

targetVars == <<has_target, target_yaw, target_pitch, target_area, target_id>>

tableVars == <<pose_table, smart_dashboard>>

vars == <<ctlVars, modeVars, poseVars, smoothedPoseVars, velVars, turretVars,
          targetVars, detected_target, last_update_time, tableVars, vision_table>>

\* ---------------------------------------------------------------- inputs
\* Contents of the 'Pose' table seen by a tick: any of X, Y, Theta, VX, VY,
\* Omega may be absent.
NoKeys == <<>>

PositionSamples ==
    { [X |-> 0, Y |-> 9000], [X |-> 2000, Y |-> 1000], [X |-> 17000, Y |-> 507],
      [X |-> 10000, Y |-> 500, Theta |-> 0] }

ThetaSamples ==
    { [Theta |-> PI], [Theta |-> -PI], [Theta |-> 3 * PI] }

VelocitySamples ==
    { [X |-> 2000, Y |-> 1000, VX |-> 100],
      [Omega |-> 30],
      [VX |-> 100, VY |-> -50, Omega |-> 30] }

PoseSamples == {NoKeys} \cup PositionSamples \cup ThetaSamples \cup VelocitySamples

\* 'Turret Angle' in the SmartDashboard table (degrees): -135 and 180.
TurretSamples ==
    { [k \in {"Turret Angle"} |-> -4320],
      [k \in {"Turret Angle"} |-> 5760] }

\* Milliseconds between two reads of pygame.time.get_ticks(): the frame
\* period of clock.tick(TARGET_FPS), and two stalled clocks.
DtNormal == 1000 \div TARGET_FPS

\* A clock that did not advance past the guard of the velocity derivation.
DtStalled == {0, DT_GUARD}

\* What one tick reads: the two tables and the clock.
TickInputs ==
    { [pose |-> p, dash |-> NoKeys, dt |-> DtNormal] : p \in PoseSamples }
    \cup { [pose |-> NoKeys, dash |-> d, dt |-> DtNormal] : d \in TurretSamples }
    \cup { [pose |-> p, dash |-> NoKeys, dt |-> t] :
             p \in {NoKeys, [X |-> 2000, Y |-> 1000]}, t \in DtStalled }

\* The 'Vision' table when the display connects: empty, or holding what an
\* earlier writer (the robot code, an earlier run) left in it.
StaleVision ==
    [HasTarget |-> TRUE, Target_Yaw |-> 320, Target_Pitch |-> 0,
     Target_Area |-> 2500, Target_ID |-> 2, Target_Distance |-> 800]

InitialVisionTables == {NoKeys, StaleVision}

\* table.putNumber(key, value) / putBoolean(key, value)
Put(table, key, value) ==
    [k \in DOMAIN table \cup {key} |-> IF k = key THEN value ELSE table[k]]

\* ------------------------------------------------------------------ Init
\* __init__
Init ==
    /\ pc = "handle_events"
    /\ last_op = "__init__"
    /\ nticks = 0
    /\ running = TRUE
    /\ menu_active = TRUE
    /\ alliance = None
    /\ simulation_active = FALSE
    /\ odometry_active = None              \* the attribute does not exist yet
    /\ apriltag_positions = NoneDict
    /\ robot_x = 0 /\ robot_y = 0 /\ robot_theta = 0 /\ prev_theta = 0
    /\ smoothed_x = 0 /\ smoothed_y = 0 /\ smoothed_theta = 0
    /\ robot_vx = 0 /\ robot_vy = 0 /\ robot_omega = 0
    /\ smoothed_vx = 0 /\ smoothed_vy = 0 /\ smoothed_omega = 0
    /\ turret_angle = 0 /\ smoothed_turret_angle = 0
    /\ has_target = FALSE
    /\ target_yaw = 0 /\ target_pitch = 0 /\ target_area = 0 /\ target_id = 0
    /\ detected_target = NoneDict
    /\ last_update_time = 0
    /\ pose_table = NoKeys
    /\ smart_dashboard = NoKeys
    /\ vision_table \in InitialVisionTables

\* --------------------------------------------------------- handle_events
\* One action per event that reaches the estimator or the mode flags.  K_h
\* (show_telemetry) and VIDEORESIZE change only what is drawn and are left
\* out with the drawing code.  handle_events drains the queue, so any number
\* of these actions may precede update_pose_data in one loop iteration.
setup_robot_on_tag(al) ==
    /\ apriltag_positions' = initialize_apriltags(al)
    /\ robot_x' = APRILTAG_MARGIN_M
    /\ robot_y' = APRILTAG_MARGIN_M
    /\ robot_theta' = 0
    /\ smoothed_x' = APRILTAG_MARGIN_M
    /\ smoothed_y' = APRILTAG_MARGIN_M
    /\ smoothed_theta' = 0
    /\ prev_theta' = 0
    /\ smoothed_turret_angle' = 0
    /\ simulation_active' = TRUE
    /\ menu_active' = FALSE

\* setup_robot_for_alliance, called with self.alliance already set to al.
setup_robot_for_alliance(al) ==
    /\ apriltag_positions' = initialize_apriltags(al)
    /\ robot_x' = START_POS
    /\ robot_y' = START_POS
    /\ robot_theta' = 0
    /\ smoothed_x' = START_POS
    /\ smoothed_y' = START_POS
    /\ smoothed_theta' = 0
    /\ prev_theta' = 0
    /\ smoothed_turret_angle' = 0
    /\ simulation_active' = TRUE
    /\ menu_active' = FALSE

\* pygame.QUIT
Quit ==
    /\ pc = "handle_events"
    /\ running' = FALSE
    /\ last_op' = "quit"
    /\ UNCHANGED <<pc, nticks, menu_active, alliance, simulation_active,
                   odometry_active, apriltag_positions, poseVars, smoothedPoseVars,
                   velVars, turretVars, targetVars, detected_target,
                   last_update_time, tableVars, vision_table>>

\* K_ESCAPE that also re-zeroes the pose on the way back to the menu.
KeyEscapeResetsPose ==
    /\ pc = "handle_events"
    /\ last_op' = "escape"
    /\ IF menu_active
       THEN /\ running' = FALSE
            /\ UNCHANGED <<menu_active, odometry_active, alliance, poseVars>>
       ELSE /\ menu_active' = TRUE
            /\ odometry_active' = "False"
            /\ alliance' = None
            /\ robot_x' = 0 /\ robot_y' = 0 /\ robot_theta' = 0
            /\ UNCHANGED <<running, prev_theta>>
    /\ UNCHANGED <<pc, nticks, simulation_active, apriltag_positions,
                   smoothedPoseVars, velVars, turretVars, targetVars,
                   detected_target, last_update_time, tableVars, vision_table>>

\* K_ESCAPE that goes back to the menu without clearing the alliance.
KeyEscapeKeepsAlliance ==
    /\ pc = "handle_events"
    /\ last_op' = "escape"
    /\ IF menu_active
       THEN /\ running' = FALSE
            /\ UNCHANGED <<menu_active, odometry_active, alliance>>
       ELSE /\ menu_active' = TRUE
            /\ odometry_active' = "False"
            /\ UNCHANGED <<running, alliance>>
    /\ UNCHANGED <<pc, nticks, simulation_active, apriltag_positions, poseVars,
                   smoothedPoseVars, velVars, turretVars, targetVars,
                   detected_target, last_update_time, tableVars, vision_table>>

\* pygame.KEYDOWN with K_ESCAPE
KeyEscape ==
    /\ pc = "handle_events"
    /\ last_op' = "escape"
    /\ IF menu_active
       THEN /\ running' = FALSE
            /\ UNCHANGED <<menu_active, odometry_active, alliance>>
       ELSE /\ menu_active' = TRUE
            /\ odometry_active' = "False"
            /\ alliance' = None
            /\ UNCHANGED running
    /\ UNCHANGED <<pc, nticks, simulation_active, apriltag_positions, poseVars,
                   smoothedPoseVars, velVars, turretVars, targetVars,
                   detected_target, last_update_time, tableVars, vision_table>>

\* pygame.MOUSEBUTTONDOWN, left button, on the red button, the blue button
\* or elsewhere (hit = "none").
MouseClick(hit) ==
    /\ pc = "handle_events"
    /\ IF menu_active /\ alliance = None /\ hit # "none"
       THEN /\ alliance' = hit
            /\ setup_robot_for_alliance(hit)
            /\ last_op' = "setup_robot_for_alliance"
            /\ UNCHANGED <<turret_angle>>
       ELSE /\ last_op' = "click"
            /\ UNCHANGED <<alliance, apriltag_positions, poseVars, smoothedPoseVars,
                           turretVars, simulation_active, menu_active>>
    /\ UNCHANGED <<pc, nticks, running, odometry_active, velVars, targetVars,
                   detected_target, last_update_time, tableVars, vision_table>>

\* ------------------------------------------------------ update_pose_data
SmoothSwappedWeights(raw, smoothed) ==
    RoundDiv((100 - smoothing_factor) * raw + smoothing_factor * smoothed, 100)

\* smoothing_factor * raw + (1 - smoothing_factor) * smoothed
Smooth(raw, smoothed) ==
    RoundDiv(smoothing_factor * raw + (100 - smoothing_factor) * smoothed, 100)

\* (new - old) / dt, dt in milliseconds, result per second
Rate(delta, dt) == RoundDiv(delta * 1000, dt)

DtUsablePositive(dt) == dt > 0

DtUsableInclusive(dt) == dt >= DT_GUARD

\* "if dt > 0.001"
DtUsable(dt) == dt > DT_GUARD

\* The raw sample: the Pose table when the simulation is active, the
\* current pose otherwise.
RawSample(table) ==
    IF simulation_active
    THEN [x |-> GetNumber(table, "X", START_POS),
          y |-> GetNumber(table, "Y", START_POS),
          theta |-> GetNumber(table, "Theta", 0)]
    ELSE [x |-> robot_x, y |-> robot_y, theta |-> robot_theta]

SmoothTurretRenormalised(raw, smoothed) ==
    NormalizeAngle(
        smoothed + RoundDiv(TURRET_SMOOTHING
                            * NormalizeAngle(raw - smoothed, HALF_TURN_DEG), 100),
        HALF_TURN_DEG)

\* turret_diff normalised by the 180/360 loops, then
\* "self.smoothed_turret_angle += TURRET_SMOOTHING * turret_diff"
SmoothTurret(raw, smoothed) ==
    smoothed + RoundDiv(TURRET_SMOOTHING
                        * NormalizeAngle(raw - smoothed, HALF_TURN_DEG), 100)

OverrideOmegaWithVelocity(table, derived) ==
    IF "VX" \in DOMAIN table /\ "VY" \in DOMAIN table
    THEN GetNumber(table, "Omega", derived)
    ELSE derived

\* "if nt_omega is not None: self.robot_omega = nt_omega"
OverrideOmega(table, derived) == GetNumber(table, "Omega", derived)

UpdatePoseData(in) ==
    LET dt == in.dt
        current_time == last_update_time + dt
        raw == RawSample(in.pose)
        new == clamp_to_field_bounds(raw.x, raw.y)
        new_x == new[1]
        new_y == new[2]
        new_theta == raw.theta
        delta_theta == NormalizeAngle(new_theta - prev_theta, PI)
        dvx == IF DtUsable(dt) THEN Rate(new_x - robot_x, dt) ELSE robot_vx
        dvy == IF DtUsable(dt) THEN Rate(new_y - robot_y, dt) ELSE robot_vy
        domega == IF DtUsable(dt) THEN Rate(delta_theta, dt) ELSE robot_omega
        both == "VX" \in DOMAIN in.pose /\ "VY" \in DOMAIN in.pose
        vx == IF both THEN in.pose["VX"] ELSE dvx
        vy == IF both THEN in.pose["VY"] ELSE dvy
        omega == OverrideOmega(in.pose, domega)
        theta_diff == NormalizeAngle(new_theta - smoothed_theta, PI)
        new_turret_angle == GetNumber(in.dash, "Turret Angle", 0)
    IN
    /\ pc = "handle_events"
    /\ pc' = "check_apriltag_in_fov"
    /\ last_op' = "update_pose_data"
    /\ pose_table' = in.pose
    /\ smart_dashboard' = in.dash
    /\ robot_vx' = vx
    /\ robot_vy' = vy
    /\ robot_omega' = omega
    /\ robot_x' = new_x
    /\ robot_y' = new_y
    /\ robot_theta' = new_theta
    /\ prev_theta' = new_theta
    /\ last_update_time' = current_time
    /\ smoothed_x' = Smooth(new_x, smoothed_x)
    /\ smoothed_y' = Smooth(new_y, smoothed_y)
    /\ smoothed_theta' = smoothed_theta + RoundDiv(smoothing_factor * theta_diff, 100)
    /\ smoothed_vx' = Smooth(vx, smoothed_vx)
    /\ smoothed_vy' = Smooth(vy, smoothed_vy)
    /\ smoothed_omega' = Smooth(omega, smoothed_omega)
    /\ smoothed_turret_angle' = SmoothTurret(new_turret_angle, smoothed_turret_angle)
    /\ turret_angle' = new_turret_angle
    /\ has_target' = GetNumber(vision_table, "HasTarget", FALSE)
    /\ target_yaw' = GetNumber(vision_table, "Target_Yaw", 0)
    /\ target_pitch' = GetNumber(vision_table, "Target_Pitch", 0)
    /\ target_area' = GetNumber(vision_table, "Target_Area", 0)
    /\ target_id' = GetNumber(vision_table, "Target_ID", NO_TARGET_ID)
    /\ UNCHANGED <<nticks, modeVars, detected_target, vision_table>>

\* ------------------------------------------------- check_apriltag_in_fov
turret_world_angle_smoothed == smoothed_theta + Radians(smoothed_turret_angle)

\* The boresight: smoothed heading plus the raw turret angle.
turret_world_angle == smoothed_theta + Radians(turret_angle)

\* The six putBoolean/putNumber calls of a detection.
PublishTarget(table, t) ==
    Put(Put(Put(Put(Put(Put(table,
        "HasTarget", TRUE),
        "Target_Yaw", t.yaw),
        "Target_Pitch", t.pitch),
        "Target_Area", t.area),
        "Target_ID", t.id),
        "Target_Distance", t.distance)

\* The six putBoolean/putNumber calls of "no target in view".
PublishNoTarget(table) ==
    Put(Put(Put(Put(Put(Put(table,
        "HasTarget", FALSE),
        "Target_Yaw", 0),
        "Target_Pitch", 0),
        "Target_Area", 0),
        "Target_ID", NO_TARGET_ID),
        "Target_Distance", 0)

\* What the inactive branch publishes.
PublishInactive(table) == Put(table, "HasTarget", FALSE)

\* The loop goes on while self.running.
NextPc == IF running THEN "handle_events" ELSE "done"

CheckApriltagInFov ==
    /\ pc = "check_apriltag_in_fov"
    /\ last_op' = "check_apriltag_in_fov"
    /\ nticks' = nticks + 1
    /\ IF ~simulation_active
       THEN /\ vision_table' = PublishInactive(vision_table)
            /\ pc' = NextPc
            /\ UNCHANGED <<targetVars, detected_target>>
       ELSE IF apriltag_positions = NoneDict
       THEN \* None.items(): AttributeError, caught in main()
            /\ pc' = "error"
            /\ UNCHANGED <<targetVars, detected_target, vision_table>>
       ELSE LET closest_tag == ScanTags(apriltag_positions, 1, NoneDict,
                                        smoothed_x, smoothed_y, turret_world_angle)
            IN IF closest_tag = ZeroDivisionError
               THEN /\ pc' = "error"
                    /\ UNCHANGED <<targetVars, detected_target, vision_table>>
               ELSE IF closest_tag # NoneDict
               THEN /\ detected_target' = closest_tag
                    /\ has_target' = TRUE
                    /\ target_yaw' = closest_tag.yaw
                    /\ target_pitch' = closest_tag.pitch
                    /\ target_area' = closest_tag.area
                    /\ target_id' = closest_tag.id
                    /\ vision_table' = PublishTarget(vision_table, closest_tag)
                    /\ pc' = NextPc
               ELSE /\ detected_target' = NoneDict
                    /\ has_target' = FALSE
                    /\ target_id' = NO_TARGET_ID
                    /\ vision_table' = PublishNoTarget(vision_table)
                    /\ pc' = NextPc
                    /\ UNCHANGED <<target_yaw, target_pitch, target_area>>
    /\ UNCHANGED <<modeVars, poseVars, smoothedPoseVars, velVars, turretVars,
                   last_update_time, tableVars>>

\* ------------------------------------------------------------------ Next
Click == \E hit \in {"red", "blue", "none"} : MouseClick(hit)

\* One loop iteration reaches update_pose_data; at most MaxTicks iterations.
Tick == nticks < MaxTicks /\ \E in \in TickInputs : UpdatePoseData(in)

Next ==
    \/ Quit
    \/ KeyEscape
    \/ Click
    \/ Tick
    \/ CheckApriltagInFov

Spec == Init /\ [][Next]_vars

\* ------------------------------------------------------------ SpecVision
\* check_apriltag_in_fov on its own, as a function of the tag set, the
\* smoothed pose and the turret angle: one Active tick whose update has
\* left the smoothed position at VisionRobot.
VisionRobot == [x |-> 2000, y |-> 2000]

\* Tags around VisionRobot: at 1.0 m and 1.5 m straight ahead, at exactly
\* the maximum range, one millimetre beyond it, at 1.0 m to the left, a tag
\* 0.1 m ahead (size / distance above 1) and a 1 mm tag 1.2 m ahead
\* (size / distance below 0.001).
TagPool ==
    { [key |-> "a", id |-> 1, x |-> VisionRobot.x + 1000, y |-> VisionRobot.y,
       size |-> APRILTAG_SIZE_M],
      [key |-> "b", id |-> 2, x |-> VisionRobot.x + 1500, y |-> VisionRobot.y,
       size |-> APRILTAG_SIZE_M],
      [key |-> "c", id |-> 3, x |-> VisionRobot.x + VISION_MAX_DISTANCE_M,
       y |-> VisionRobot.y, size |-> APRILTAG_SIZE_M],
      [key |-> "d", id |-> 4, x |-> VisionRobot.x + VISION_MAX_DISTANCE_M + 1,
       y |-> VisionRobot.y, size |-> APRILTAG_SIZE_M],
      [key |-> "e", id |-> 5, x |-> VisionRobot.x, y |-> VisionRobot.y + 1000,
       size |-> APRILTAG_SIZE_M],
      [key |-> "f", id |-> 6, x |-> VisionRobot.x + 100, y |-> VisionRobot.y,
       size |-> APRILTAG_SIZE_M],
      [key |-> "g", id |-> 7, x |-> VisionRobot.x + 1200, y |-> VisionRobot.y,
       size |-> 1] }

\* Dicts of 1 .. MaxTags tags with distinct keys, in every insertion order.
TagDicts ==
    { t \in UNION { [1..n -> TagPool] : n \in 1..MaxTags } :
        \A i, j \in DOMAIN t : i # j => t[i].key # t[j].key }

\* Smoothed headings: ahead, half the FOV to either side of the tags ahead,
\* one unit more than that, and a quarter turn.
VisionHeadings ==
    {0, Radians(VISION_FOV_H \div 2), -Radians(VISION_FOV_H \div 2),
     Radians(VISION_FOV_H \div 2) + 1, PI \div 2}

\* Raw turret angles (degrees): none, 1/16 degree, minus half the FOV.
VisionTurrets == {0, 2, -(VISION_FOV_H \div 2)}

InitVision ==
    /\ pc = "check_apriltag_in_fov"
    /\ last_op = "update_pose_data"
    /\ nticks = 0
    /\ running = TRUE
    /\ menu_active = FALSE
    /\ alliance = "red"
    /\ simulation_active = TRUE
    /\ odometry_active = None
    /\ apriltag_positions \in TagDicts
    /\ robot_x = VisionRobot.x /\ robot_y = VisionRobot.y
    /\ robot_theta = 0 /\ prev_theta = 0
    /\ smoothed_x = VisionRobot.x /\ smoothed_y = VisionRobot.y
    /\ smoothed_theta \in VisionHeadings
    /\ robot_vx = 0 /\ robot_vy = 0 /\ robot_omega = 0
    /\ smoothed_vx = 0 /\ smoothed_vy = 0 /\ smoothed_omega = 0
    /\ turret_angle \in VisionTurrets
    /\ smoothed_turret_angle = 0
    /\ has_target = FALSE
    /\ target_yaw = 0 /\ target_pitch = 0 /\ target_area = 0
    /\ target_id = NO_TARGET_ID
    /\ detected_target = NoneDict
    /\ last_update_time = DtNormal
    /\ pose_table = NoKeys
    /\ smart_dashboard = NoKeys
    /\ vision_table \in InitialVisionTables

NextVision == CheckApriltagInFov

SpecVision == InitVision /\ [][NextVision]_vars

\* ---------------------------------------------------------- SpecScenario
\* The start-up scenario: the program is started, the alliance al is
\* selected with the first click (__init__ followed by the accepted
\* MOUSEBUTTONDOWN), and the loop then ticks.
InitSelected(al) ==
    /\ pc = "handle_events"
    /\ last_op = "setup_robot_for_alliance"
    /\ nticks = 0
    /\ running = TRUE
    /\ menu_active = FALSE
    /\ alliance = al
    /\ simulation_active = TRUE
    /\ odometry_active = None
    /\ apriltag_positions = initialize_apriltags(al)
    /\ robot_x = START_POS /\ robot_y = START_POS
    /\ robot_theta = 0 /\ prev_theta = 0
    /\ smoothed_x = START_POS /\ smoothed_y = START_POS /\ smoothed_theta = 0
    /\ robot_vx = 0 /\ robot_vy = 0 /\ robot_omega = 0
    /\ smoothed_vx = 0 /\ smoothed_vy = 0 /\ smoothed_omega = 0
    /\ turret_angle = 0 /\ smoothed_turret_angle = 0
    /\ has_target = FALSE
    /\ target_yaw = 0 /\ target_pitch = 0 /\ target_area = 0 /\ target_id = 0
    /\ detected_target = NoneDict
    /\ last_update_time = 0
    /\ pose_table = NoKeys
    /\ smart_dashboard = NoKeys
    /\ vision_table \in InitialVisionTables

\* Bearing of the bottom-left tag seen from the start position, in degrees:
\* atan2(-0.2, -0.2) = -135 degrees.
StartTagBearingDeg == -((3 * HALF_TURN_DEG) \div 4)

\* Raw turret angles of the scenario: key absent (0), on the tag's bearing,
\* half the FOV to either side of it, 1/16 degree beyond that on either
\* side, a half turn, and the bearing plus a full turn.
ScenarioTurrets ==
    {NoKeys}
    \cup { [k \in {"Turret Angle"} |-> StartTagBearingDeg + d] :
             d \in {0, VISION_FOV_H \div 2, -(VISION_FOV_H \div 2),
                    VISION_FOV_H \div 2 + 2, -(VISION_FOV_H \div 2) - 2,
                    HALF_TURN_DEG - StartTagBearingDeg, 2 * HALF_TURN_DEG} }

\* Telemetry: the first tick reads the start pose (keys absent, or present
\* with the start values); every later tick reads (10, 0.5, 0).
ScenarioPoses ==
    IF nticks = 0
    THEN {NoKeys, [X |-> START_POS, Y |-> START_POS, Theta |-> 0]}
    ELSE {[X |-> 10000, Y |-> START_POS, Theta |-> 0]}

ScenarioTick ==
    /\ nticks < MaxTicks
    /\ \E p \in ScenarioPoses, d \in ScenarioTurrets, t \in {DtNormal} \cup DtStalled :
           UpdatePoseData([pose |-> p, dash |-> d, dt |-> t])

InitScenario == InitSelected("red")

NextScenario == ScenarioTick \/ CheckApriltagInFov

SpecScenario == InitScenario /\ [][NextScenario]_vars

\* -------------------------------------------------------------- SpecHold
\* Raw angles held over many ticks: an alliance is selected at start-up,
\* the telemetry then holds one position of HoldPositions with a heading of 179
\* or 180 degrees and the turret a raw angle of 170 or 135 degrees; at any
\* later tick the heading, the turret angle, or both may jump once to the
\* mirrored angle (179 to -179 degrees, 170 to -170 degrees) and are held
\* there.
HoldHeadings == {PI - 16, PI}

\* Held raw positions: inside the field, and beyond the far end of the field
\* on x and at the lower bound on y.
HoldPositions == { <<2000, 1000>>, <<17000, half_diagonal>> }

HoldTurretAngles == {HALF_TURN_DEG - 320, (3 * HALF_TURN_DEG) \div 4}

HoldPoses ==
    IF nticks = 0
    THEN { [X |-> pos[1], Y |-> pos[2], Theta |-> th] :
             pos \in HoldPositions, th \in HoldHeadings }
    ELSE {pose_table}
         \cup (IF pose_table["Theta"] > 0
               THEN { [pose_table EXCEPT !["Theta"] = -@] }
               ELSE {})

HoldTurrets ==
    IF nticks = 0
    THEN { [k \in {"Turret Angle"} |-> t] : t \in HoldTurretAngles }
    ELSE {smart_dashboard}
         \cup (IF smart_dashboard["Turret Angle"] > 0
               THEN { [smart_dashboard EXCEPT !["Turret Angle"] = -@] }
               ELSE {})

HoldTick ==
    /\ nticks < HoldTicks
    /\ \E p \in HoldPoses, d \in HoldTurrets :
           UpdatePoseData([pose |-> p, dash |-> d, dt |-> DtNormal])

InitHold == \E al \in {"red", "blue"} : InitSelected(al)

NextHold == HoldTick \/ CheckApriltagInFov

SpecHold == InitHold /\ [][NextHold]_vars

\* ------------------------------------------------------------- SpecClamp
\* clamp_to_field_bounds as update_pose_data applies it to the telemetry
\* position: after a selection at start-up every tick reads a position
\* whose coordinates are below the field, just below, at and just above
\* each bound of the clamp, in the middle, and beyond the field.
ClampSamples(field_max) ==
    {-1, half_diagonal - 1, half_diagonal, field_max \div 2,
     field_max - half_diagonal, field_max - half_diagonal + 1, field_max + 1}

ClampPoses ==
    { [X |-> x, Y |-> y] :
        x \in ClampSamples(FIELD_WIDTH_M), y \in ClampSamples(field_height_m) }

ClampTick ==
    /\ nticks < MaxTicks
    /\ \E p \in ClampPoses :
           UpdatePoseData([pose |-> p, dash |-> NoKeys, dt |-> DtNormal])

InitClamp == \E al \in {"red", "blue"} : InitSelected(al)

NextClamp == ClampTick \/ CheckApriltagInFov

SpecClamp == InitClamp /\ [][NextClamp]_vars

\* ================================================================ claims
VisionKeys ==
    {"HasTarget", "Target_Yaw", "Target_Pitch", "Target_Area", "Target_ID",
     "Target_Distance"}

\* A tick has just completed (update_pose_data and check_apriltag_in_fov).
TickDone == last_op = "check_apriltag_in_fov" /\ pc # "error"

\* The step is update_pose_data.
IsUpdateStep == pc = "handle_events" /\ pc' = "check_apriltag_in_fov"

\* The step is the reset command (ESC) issued while the menu is not shown.
IsResetStep == pc = "handle_events" /\ last_op' = "escape" /\ ~menu_active

\* C1: in every reachable state robot_x and robot_y lie within
\* [half_diagonal, field_dimension - half_diagonal] on their axis.
C1_PoseAlwaysWithinField ==
    /\ half_diagonal <= robot_x /\ robot_x <= FIELD_WIDTH_M - half_diagonal
    /\ half_diagonal <= robot_y /\ robot_y <= field_height_m - half_diagonal

\* C2: on every tick executed while the menu is shown, update_pose_data
\* leaves robot_x, robot_y and robot_theta as they were.
C2_MenuTickHoldsPose ==
    [][(IsUpdateStep /\ menu_active) =>
          (robot_x' = robot_x /\ robot_y' = robot_y /\ robot_theta' = robot_theta)]_vars

\* C3: after every tick executed while the menu is shown the result is the
\* canonical no-detection value (has_target false, id -1, detected target
\* cleared) and HasTarget=false is in the Vision table.
C3_MenuTickNoDetection ==
    (TickDone /\ menu_active) =>
        /\ has_target = FALSE
        /\ target_id = NO_TARGET_ID
        /\ detected_target = NoneDict
        /\ GetNumber(vision_table, "HasTarget", TRUE) = FALSE

\* C4: after every tick, in either mode, all six vision keys have been
\* written, and a tick that reports no target leaves HasTarget=false,
\* Target_ID=-1 and zero in the four other keys.
C4_AllSixKeysEveryTick ==
    TickDone =>
        /\ VisionKeys \subseteq DOMAIN vision_table
        /\ vision_table["HasTarget"] = FALSE =>
              /\ vision_table["Target_ID"] = NO_TARGET_ID
              /\ vision_table["Target_Yaw"] = 0
              /\ vision_table["Target_Pitch"] = 0
              /\ vision_table["Target_Area"] = 0
              /\ vision_table["Target_Distance"] = 0

\* The tick evaluated the tags (the simulation is active).
ActiveTickDone == TickDone /\ simulation_active

\* Distance and angular offset of tag i, from the smoothed position and the
\* boresight the check used (the check changes neither).
DistanceOf(i) == TagDistance(apriltag_positions[i], smoothed_x, smoothed_y)

OffsetOf(i) ==
    TagAngleDiffDeg(apriltag_positions[i], smoothed_x, smoothed_y, turret_world_angle)

\* Tag i passes the range filter and the FOV filter, both bounds inclusive.
Eligible(i) ==
    /\ DistanceOf(i) <= VISION_MAX_DISTANCE_M
    /\ 2 * Abs(OffsetOf(i)) <= VISION_FOV_H

EligibleTags == {i \in DOMAIN apriltag_positions : Eligible(i)}

\* C5: on every Active tick, if some tag passes both filters the one target
\* reported has the id, yaw and distance of a passing tag of minimal
\* distance; if none passes, no target is reported.
C5_NearestEligibleTagWins ==
    ActiveTickDone =>
        IF EligibleTags = {}
        THEN /\ vision_table["HasTarget"] = FALSE
             /\ vision_table["Target_ID"] = NO_TARGET_ID
             /\ detected_target = NoneDict
        ELSE /\ vision_table["HasTarget"] = TRUE
             /\ \E i \in EligibleTags :
                   /\ \A j \in EligibleTags : DistanceOf(i) <= DistanceOf(j)
                   /\ vision_table["Target_ID"] = apriltag_positions[i].id
                   /\ vision_table["Target_Yaw"] = OffsetOf(i)
                   /\ vision_table["Target_Distance"] = DistanceOf(i)

\* C5 witness: a 1.5 m tag iterated before a 1.0 m tag, both passing, and
\* the 1.0 m tag reported.
C5_Witness ==
    /\ ActiveTickDone
    /\ Len(apriltag_positions) >= 2
    /\ apriltag_positions[1].key = "b"
    /\ apriltag_positions[2].key = "a"
    /\ {1, 2} \subseteq EligibleTags
    /\ vision_table["HasTarget"] = TRUE
    /\ vision_table["Target_ID"] = 1
    /\ vision_table["Target_Distance"] = 1000

\* C6: on every Active tick a target is published exactly when some tag is
\* within the maximum range and within half the FOV of the boresight (both
\* inclusive); the tag published is such a tag, its Target_Distance is at
\* most 1.85 m and |Target_Yaw| at most 31.25 degrees.
C6_RangeAndFovInclusive ==
    ActiveTickDone =>
        /\ vision_table["HasTarget"] = (EligibleTags # {})
        /\ vision_table["HasTarget"] =>
              /\ vision_table["Target_Distance"] <= VISION_MAX_DISTANCE_M
              /\ 2 * Abs(vision_table["Target_Yaw"]) <= VISION_FOV_H
              /\ \E i \in EligibleTags :
                    /\ apriltag_positions[i].x = detected_target.tag_x
                    /\ apriltag_positions[i].y = detected_target.tag_y

\* C6 witness: a tag published at exactly the maximum range and exactly
\* half the FOV off the boresight.
C6_Witness ==
    /\ ActiveTickDone
    /\ vision_table["HasTarget"] = TRUE
    /\ vision_table["Target_Distance"] = VISION_MAX_DISTANCE_M
    /\ 2 * Abs(vision_table["Target_Yaw"]) = VISION_FOV_H

\* C7: immediately after an accepted alliance click the pose is
\* (0.5, 0.5, 0), every smoothed field equals the robot's field (x, y, theta,
\* vx, vy, omega), the smoothed turret angle is 0 and the tag set is the
\* selected alliance's layout.
C7_SetupResetsAllSmoothedFields ==
    last_op = "setup_robot_for_alliance" =>
        /\ robot_x = START_POS /\ robot_y = START_POS /\ robot_theta = 0
        /\ smoothed_x = robot_x /\ smoothed_y = robot_y
        /\ smoothed_theta = robot_theta
        /\ smoothed_vx = robot_vx /\ smoothed_vy = robot_vy
        /\ smoothed_omega = robot_omega
        /\ smoothed_turret_angle = 0
        /\ apriltag_positions = initialize_apriltags(alliance)

\* C8 as claimed: ESC while Active shows the menu, clears the alliance,
\* clears the tag set and leaves the pose as it was.
C8_ResetClearsTagSet ==
    [][IsResetStep =>
          /\ menu_active' /\ alliance' = None
          /\ apriltag_positions' = NoneDict
          /\ robot_x' = robot_x /\ robot_y' = robot_y /\ robot_theta' = robot_theta]_vars

\* C8 amended: ESC while Active shows the menu, clears the alliance, leaves
\* the tag set holding the layout it held, and leaves robot_x, robot_y and
\* robot_theta as they were.
C8_ResetKeepsTagSetAndPose ==
    [][IsResetStep =>
          /\ menu_active' /\ alliance' = None
          /\ apriltag_positions' = apriltag_positions
          /\ apriltag_positions' # NoneDict
          /\ robot_x' = robot_x /\ robot_y' = robot_y /\ robot_theta' = robot_theta]_vars

\* C8 witness: the reset command has just been handled after a tick that
\* moved the robot off the start pose.
C8_Witness ==
    /\ last_op = "escape"
    /\ odometry_active = "False"
    /\ menu_active /\ alliance = None /\ running
    /\ apriltag_positions # NoneDict
    /\ robot_x # START_POS /\ robot_theta # 0

\* C9: the menu is shown if and only if the simulation is not active.
C9_MenuIffNotSimulating == menu_active = ~simulation_active

\* C10: whenever the simulation is active an alliance is selected and the
\* tag set is that alliance's layout.
C10_ActiveHasAllianceAndTags ==
    simulation_active =>
        /\ alliance \in {"red", "blue"}
        /\ apriltag_positions = initialize_apriltags(alliance)

\* ------------------------------------------------------------------ C11
\* The tag at the given dict key of the current tag set.
TagAt(key) ==
    LET i == CHOOSE j \in 1..Len(apriltag_positions) : apriltag_positions[j].key = key
    IN apriltag_positions[i]

\* C11: while an alliance is selected the tag set holds exactly two tags,
\* "bottom_left" at (margin, margin) and "bottom_right" at
\* (field width - margin, margin), both of the same size; Red numbers them
\* 1 (left) and 2 (right), Blue 2 (left) and 1 (right).  Every selection of
\* the same alliance, a repeated one included, yields this same set.
C11_TwoTagsIdsSwapWithAlliance ==
    alliance \in {"red", "blue"} =>
        /\ Len(apriltag_positions) = 2
        /\ {apriltag_positions[j].key : j \in 1..2} = {"bottom_left", "bottom_right"}
        /\ TagAt("bottom_left").x = APRILTAG_MARGIN_M
        /\ TagAt("bottom_left").y = APRILTAG_MARGIN_M
        /\ TagAt("bottom_right").x = FIELD_WIDTH_M - APRILTAG_MARGIN_M
        /\ TagAt("bottom_right").y = APRILTAG_MARGIN_M
        /\ TagAt("bottom_left").size = TagAt("bottom_right").size
        /\ alliance = "red" =>
               TagAt("bottom_left").id = 1 /\ TagAt("bottom_right").id = 2
        /\ alliance = "blue" =>
               TagAt("bottom_left").id = 2 /\ TagAt("bottom_right").id = 1

\* Blue selected in a second session, after a reset from an earlier one.
C11_Witness ==
    /\ alliance = "blue"
    /\ odometry_active = "False"
    /\ last_op = "setup_robot_for_alliance"
    /\ TagAt("bottom_left").id = 2

\* ------------------------------------------------------------------ C12
\* Nothing is published as detected: HasTarget false, Target_ID -1, zeros.
NoTargetPublished ==
    /\ vision_table["HasTarget"] = FALSE
    /\ vision_table["Target_ID"] = -1
    /\ vision_table["Target_Yaw"] = 0
    /\ vision_table["Target_Pitch"] = 0
    /\ vision_table["Target_Area"] = 0
    /\ vision_table["Target_Distance"] = 0

TagOnePublished ==
    /\ vision_table["HasTarget"] = TRUE
    /\ vision_table["Target_ID"] = 1

\* The raw turret angle points within half the FOV (31.25 degrees) of the
\* bottom-left tag's bearing of -135 degrees.
TurretOnStartTag ==
    /\ StartTagBearingDeg - VISION_FOV_H \div 2 <= turret_angle
    /\ turret_angle <= StartTagBearingDeg + VISION_FOV_H \div 2

\* C12 as stated: Red selected, first tick at the start pose (0.5, 0.5, 0)
\* publishes tag 1 as detected; the tick after the telemetry moved the
\* robot to (10, 0.5, 0) publishes no target.
C12_StartPoseDetectsTagOne ==
    /\ (TickDone /\ nticks = 1) => TagOnePublished
    /\ (TickDone /\ nticks = 2) => NoTargetPublished

\* C12, amended: the first tick publishes tag 1 when the raw turret angle
\* is within 31.25 degrees of -135 degrees; the tick after the move to
\* (10, 0.5, 0) publishes no target whatever the turret angle.
C12_StartPoseDetectsTagOneWhenTurretAimed ==
    /\ (TickDone /\ nticks = 1 /\ TurretOnStartTag) => TagOnePublished
    /\ (TickDone /\ nticks = 2) => NoTargetPublished

\* The second tick of the scenario, after a first tick that detected the
\* tag (the internal target_area still holds the area published then), with
\* the turret still on the bearing the tag had.
C12_Witness ==
    /\ TickDone /\ nticks = 2
    /\ robot_x = 10000
    /\ turret_angle = StartTagBearingDeg
    /\ target_area > 0
    /\ NoTargetPublished

\* ------------------------------------------------------------------ C13
\* The representative of raw modulo a full turn (2 * half) in the closed
\* interval [-half, half]; an odd multiple of half keeps the sign of raw.
WrapClosed(raw, half) ==
    LET d == ((raw + half) % (2 * half)) - half
    IN IF d = -half /\ raw > 0 THEN half ELSE d

\* The representative of raw modulo a full turn in (-half, half].
WrapHalfOpen(raw, half) == half - ((half - raw) % (2 * half))

IsCheckStep == pc = "check_apriltag_in_fov" /\ pc' = "handle_events"

\* C13 as stated: every angle delta a tick applies (heading delta behind
\* robot_omega, heading and turret smoothing deltas, published yaw) is the
\* raw difference brought into (-pi, pi], resp. (-180, 180] degrees: pi
\* stays pi and a raw delta of exactly -pi becomes +pi.
C13_DeltasInHalfOpenInterval ==
    [][/\ IsUpdateStep =>
            LET dt == last_update_time' - last_update_time
            IN /\ (DtUsable(dt) /\ "Omega" \notin DOMAIN pose_table') =>
                      robot_omega' = Rate(WrapHalfOpen(robot_theta' - prev_theta, PI), dt)
               /\ smoothed_theta' - smoothed_theta =
                      RoundDiv(smoothing_factor
                               * WrapHalfOpen(robot_theta' - smoothed_theta, PI), 100)
               /\ smoothed_turret_angle' - smoothed_turret_angle =
                      RoundDiv(TURRET_SMOOTHING
                               * WrapHalfOpen(turret_angle' - smoothed_turret_angle,
                                              HALF_TURN_DEG), 100)
       /\ (IsCheckStep /\ pc' # "error" /\ simulation_active) =>
            /\ vision_table'["Target_Yaw"] > -HALF_TURN_DEG
            /\ vision_table'["Target_Yaw"] <= HALF_TURN_DEG
      ]_vars

\* C13, amended: every angle delta a tick applies is the raw difference
\* brought into the closed interval [-pi, pi], resp. [-180, 180] degrees:
\* pi stays pi and a raw delta of exactly -pi stays -pi.
C13_DeltasInClosedInterval ==
    [][/\ IsUpdateStep =>
            LET dt == last_update_time' - last_update_time
            IN /\ (DtUsable(dt) /\ "Omega" \notin DOMAIN pose_table') =>
                      robot_omega' = Rate(WrapClosed(robot_theta' - prev_theta, PI), dt)
               /\ smoothed_theta' - smoothed_theta =
                      RoundDiv(smoothing_factor
                               * WrapClosed(robot_theta' - smoothed_theta, PI), 100)
               /\ smoothed_turret_angle' - smoothed_turret_angle =
                      RoundDiv(TURRET_SMOOTHING
                               * WrapClosed(turret_angle' - smoothed_turret_angle,
                                            HALF_TURN_DEG), 100)
       /\ (IsCheckStep /\ pc' # "error" /\ simulation_active) =>
            /\ vision_table'["Target_Yaw"] >= -HALF_TURN_DEG
            /\ vision_table'["Target_Yaw"] <= HALF_TURN_DEG
      ]_vars

\* An Active tick whose heading delta is exactly -pi: the heading went from
\* 0 to -pi within one normal frame and robot_omega is -pi / dt.
C13_Witness ==
    /\ last_op = "update_pose_data"
    /\ simulation_active
    /\ "Omega" \notin DOMAIN pose_table
    /\ robot_theta = -PI
    /\ last_update_time = DtNormal
    /\ robot_omega = Rate(-PI, DtNormal)

\* ------------------------------------------------------------------ C14
\* area (in 0.01 %) is (size / distance) * 100 clamped into [0.1, 100]: the
\* bound where the quotient is beyond it, the quotient rounded to the
\* nearest unit otherwise.
IsClampedArea(area, size, distance) ==
    /\ AREA_MIN <= area /\ area <= AREA_MAX
    /\ IF size * 10000 >= AREA_MAX * distance THEN area = AREA_MAX
       ELSE IF size * 10000 <= AREA_MIN * distance THEN area = AREA_MIN
       ELSE 2 * Abs(area * distance - size * 10000) <= distance

IsOddMultiple(a, half) == a % half = 0 /\ (a \div half) % 2 = 1

\* C16 as stated: normalisation is periodic in the full turn for every
\* angle, a half turn included: the heading and turret smoothing steps a
\* tick applies are the ones a raw angle k full turns away would produce.
C16_NormalizePeriodic ==
    [][IsUpdateStep =>
         \A k \in -MaxTurns..MaxTurns :
            LET a == robot_theta' - smoothed_theta
                t == turret_angle' - smoothed_turret_angle
            IN /\ smoothed_theta' - smoothed_theta =
                     RoundDiv(smoothing_factor
                              * NormalizeAngle(a + 2 * PI * k, PI), 100)
               /\ smoothed_turret_angle' - smoothed_turret_angle =
                     RoundDiv(TURRET_SMOOTHING
                              * NormalizeAngle(t + 2 * HALF_TURN_DEG * k,
                                               HALF_TURN_DEG), 100)
      ]_vars

\* The step a tick applies for the raw difference a, and the result of
\* normalising a shifted by k full turns: the same step unless a is an odd
\* multiple of a half turn, where the shifted angle normalises to plus or
\* minus a half turn with its own sign.
PeriodicStep(step, a, k, half, factor) ==
    LET shifted == a + 2 * half * k
    IN IF IsOddMultiple(a, half)
       THEN NormalizeAngle(shifted, half) = (IF shifted > 0 THEN half ELSE -half)
       ELSE step = RoundDiv(factor * NormalizeAngle(shifted, half), 100)

\* C16, amended: normalisation is periodic in the full turn for every angle
\* that is not an odd multiple of a half turn; an odd multiple of a half
\* turn normalises to +pi when positive and to -pi when negative.
C16_NormalizePeriodicExceptHalfTurn ==
    [][IsUpdateStep =>
         \A k \in -MaxTurns..MaxTurns :
            /\ PeriodicStep(smoothed_theta' - smoothed_theta,
                            robot_theta' - smoothed_theta, k, PI, smoothing_factor)
            /\ PeriodicStep(smoothed_turret_angle' - smoothed_turret_angle,
                            turret_angle' - smoothed_turret_angle, k,
                            HALF_TURN_DEG, TURRET_SMOOTHING)
      ]_vars

\* An Active tick whose raw heading (3 pi) is more than a full turn away
\* from the smoothed heading and not at a half turn from it: the heading
\* was pi one tick earlier, and the smoothed heading moved on towards pi.
C16_Witness ==
    /\ last_op = "update_pose_data"
    /\ simulation_active
    /\ robot_theta = 3 * PI
    /\ smoothed_theta > RoundDiv(smoothing_factor * PI, 100)
    /\ smoothed_theta < PI

\* ------------------------------------------------------------------ C17
\* The Pose table read by the tick carries none of VX, VY, Omega.
NoExternalVelocity(table) == DOMAIN table \cap {"VX", "VY", "Omega"} = {}

\* C17: on a tick whose dt is at most 0.001 s (zero included) and whose
\* telemetry carries no external velocity, robot_vx, robot_vy and
\* robot_omega after the tick are the values they had before it.
C17_StalledTickHoldsVelocity ==
    [][(/\ IsUpdateStep
        /\ last_update_time' - last_update_time <= DT_GUARD
        /\ NoExternalVelocity(pose_table'))
       => (robot_vx' = robot_vx /\ robot_vy' = robot_vy /\ robot_omega' = robot_omega)
      ]_vars

\* An Active tick with dt <= 0.001 s on which the pose moved from the start
\* corner to (2.0, 1.0) while robot_vx kept the value the previous, normal
\* tick had derived.
C17_Witness ==
    /\ last_op = "update_pose_data"
    /\ simulation_active
    /\ NoExternalVelocity(pose_table)
    /\ robot_x = 2000
    /\ last_update_time \in {DtNormal + t : t \in DtStalled}
    /\ robot_vx = Rate(half_diagonal - START_POS, DtNormal)

\* ------------------------------------------------------------------ C18
\* C18: after an Active tick robot_vx and robot_vy are the telemetry VX and
\* VY when both keys are present; when at most one of them is present both
\* are the finite differences of the clamped pose (or, on a stalled tick,
\* the held values).  robot_omega is the telemetry Omega whenever that key
\* is present, whether or not VX and VY are, and the derived (or held)
\* value otherwise.
C18_VelocityOverrides ==
    [][(IsUpdateStep /\ simulation_active) =>
         LET dt == last_update_time' - last_update_time
             keys == DOMAIN pose_table'
         IN /\ IF {"VX", "VY"} \subseteq keys
               THEN /\ robot_vx' = pose_table'["VX"]
                    /\ robot_vy' = pose_table'["VY"]
               ELSE IF dt > DT_GUARD
               THEN /\ robot_vx' * dt - (robot_x' - robot_x) * 1000 \in -(dt \div 2)..(dt \div 2)
                    /\ robot_vy' * dt - (robot_y' - robot_y) * 1000 \in -(dt \div 2)..(dt \div 2)
               ELSE robot_vx' = robot_vx /\ robot_vy' = robot_vy
            /\ IF "Omega" \in keys
               THEN robot_omega' = pose_table'["Omega"]
               ELSE IF dt > DT_GUARD
               THEN robot_omega' * dt - WrapClosed(robot_theta' - prev_theta, PI) * 1000
                        \in -(dt \div 2)..(dt \div 2)
               ELSE robot_omega' = robot_omega
      ]_vars

\* An Active tick whose telemetry carries VX = 0.1 m/s but no VY: robot_vx
\* is the finite difference of the move to (2.0, 1.0), not the telemetry
\* value.
C18_Witness ==
    /\ last_op = "update_pose_data"
    /\ simulation_active
    /\ "VX" \in DOMAIN pose_table
    /\ "VY" \notin DOMAIN pose_table
    /\ robot_x = 2000
    /\ robot_vx # pose_table["VX"]
    /\ robot_vx > 0

\* ------------------------------------------------------------------ C19
\* C19: on every tick the smoothed heading changes by exactly 0.3 times
\* the shortest signed angular difference between the raw and the smoothed
\* heading, hence by at most 0.3 pi; with the smoothed heading at 179
\* degrees and the raw heading jumping to -179 degrees the smoothed heading
\* increases (towards and through 180 degrees).
C19_HeadingSmoothingTakesShortestWay ==
    [][IsUpdateStep =>
         LET step == smoothed_theta' - smoothed_theta
             raw == robot_theta' - smoothed_theta
             shortest == WrapClosed(raw, PI)
         IN /\ Abs(shortest) <= PI
            /\ \A k \in -MaxTurns..MaxTurns : Abs(shortest) <= Abs(raw + 2 * PI * k)
            /\ step = RoundDiv(smoothing_factor * shortest, 100)
            /\ 100 * Abs(step) <= smoothing_factor * PI
            /\ (/\ Abs(smoothed_theta - (PI - 16)) <= 2
                /\ robot_theta' = -(PI - 16))
               => smoothed_theta' > smoothed_theta
      ]_vars

\* The tick on which the raw heading jumped from 179 to -179 degrees
\* (robot_omega is the 2 degree turn through 180 degrees over one frame)
\* with the smoothed heading within a degree of 179 degrees: the smoothed heading
\* has moved up, beyond 179 degrees.
C19_Witness ==
    /\ last_op = "update_pose_data"
    /\ robot_theta = -(PI - 16)
    /\ robot_omega = Rate(2 * 16, DtNormal)
    /\ smoothed_theta > PI - 16
    /\ smoothed_theta <= PI

\* ------------------------------------------------------------------ C20
\* C20 as stated: after any sequence of ticks the smoothed turret angle lies
\* in (-180, 180] degrees.
C20_SmoothedTurretInHalfOpenRange ==
    /\ smoothed_turret_angle > -HALF_TURN_DEG
    /\ smoothed_turret_angle <= HALF_TURN_DEG

\* C20, amended: on every tick the smoothed turret angle moves by 0.15
\* times the raw-minus-smoothed difference brought into [-180, 180]
\* degrees, hence by at most 27 degrees; the smoothed angle itself is not
\* brought back into a range.
C20_TurretStepBounded ==
    [][IsUpdateStep =>
         LET step == smoothed_turret_angle' - smoothed_turret_angle
             diff == WrapClosed(turret_angle' - smoothed_turret_angle, HALF_TURN_DEG)
         IN /\ step = RoundDiv(TURRET_SMOOTHING * diff, 100)
            /\ 100 * Abs(step) <= TURRET_SMOOTHING * HALF_TURN_DEG
      ]_vars

\* The raw turret angle was held at 170 degrees and then at -170 degrees:
\* the smoothed angle went up through 180 degrees and is above it.
C20_Witness ==
    /\ last_op = "update_pose_data"
    /\ turret_angle = -(HALF_TURN_DEG - 320)
    /\ smoothed_turret_angle > HALF_TURN_DEG

\* ------------------------------------------------------------------ C21
\* 1000 times an upper bound of 0.7^n * d (d >= 0, in millimetres).
RECURSIVE Envelope(_, _)
Envelope(d, n) ==
    IF n = 0 THEN 1000 * d ELSE (7 * Envelope(d, n - 1)) \div 10 + 1

\* Number of ticks after which the envelope, started at 1000 * d, is below
\* a third of a millimetre: the bound on the number of ticks, a function of
\* the factor 0.7 and of the initial distance only.
RECURSIVE TicksUntilSmall(_)
TicksUntilSmall(e) ==
    IF e <= 333 THEN 0 ELSE 1 + TicksUntilSmall((7 * e) \div 10 + 1)

\* One smoothing step of a coordinate towards the held raw value, the n-th
\* since the hold began at distance |raw - start|: the distance does not
\* grow, keeps its sign, is 0.7 times the distance before (to the half
\* millimetre the fixed-point step rounds to), stays under the geometric
\* envelope (plus the accumulated rounding, at most 0.5 / 0.3 mm), and is
\* within 2 mm once the bounded number of ticks has passed.
ShrinksTowards(raw, before, after, start, n) ==
    LET d == raw - before
        e == raw - after
    IN /\ Abs(e) <= Abs(d)
       /\ d * e >= 0
       /\ Abs(10 * e - 7 * d) <= 5
       /\ 1000 * Abs(e) <= Envelope(Abs(raw - start), n) + 1667
       /\ n >= TicksUntilSmall(1000 * Abs(raw - start)) => Abs(e) <= 2

\* C21: while the raw (clamped) position handed to consecutive Active ticks
\* is constant, on each tick the distance between raw and smoothed x (and
\* y) does not increase, shrinks by the factor 0.7 and keeps its sign, and
\* it is within epsilon of zero after a number of ticks bounded by a
\* function of the factor and the initial distance.
C21_SmoothingConverges ==
    [][(/\ IsUpdateStep
        /\ simulation_active
        /\ nticks = 0 \/ (robot_x' = robot_x /\ robot_y' = robot_y))
       => /\ ShrinksTowards(robot_x', smoothed_x, smoothed_x', START_POS, nticks + 1)
          /\ ShrinksTowards(robot_y', smoothed_y, smoothed_y', START_POS, nticks + 1)
      ]_vars

\* The position (2.0, 1.0) has been held for the bounded number of ticks:
\* smoothed_x and smoothed_y, which started at 0.5, are within 2 mm of it.
C21_Witness ==
    /\ last_op = "update_pose_data"
    /\ robot_x = 2000 /\ robot_y = 1000
    /\ nticks + 1 >= TicksUntilSmall(1000 * (2000 - START_POS))
    /\ Abs(robot_x - smoothed_x) <= 2
    /\ Abs(robot_y - smoothed_y) <= 2
    /\ smoothed_x > START_POS

\* ------------------------------------------------------------------ C22
\* v lies in [half_diagonal, field_max - half_diagonal].
InsideAxis(v, field_max) == half_diagonal <= v /\ v <= field_max - half_diagonal

\* C22: clamp_to_field_bounds returns the point it is given when the point
\* is inside [half_diagonal, dimension - half_diagonal] on both axes, and
\* clamping its result again changes nothing.
C22_ClampNoOpInsideAndIdempotent ==
    [][(IsUpdateStep /\ simulation_active) =>
         LET x == pose_table'["X"]
             y == pose_table'["Y"]
         IN /\ (InsideAxis(x, FIELD_WIDTH_M) /\ InsideAxis(y, field_height_m))
                  => (robot_x' = x /\ robot_y' = y)
            /\ clamp_to_field_bounds(robot_x', robot_y') = <<robot_x', robot_y'>>
            /\ clamp_to_field_bounds(robot_x', robot_y') = clamp_to_field_bounds(x, y)
      ]_vars

\* The telemetry position is the corner of the allowed rectangle, on the
\* upper bound in x and on the lower bound in y, and the pose is that point.
C22_Witness ==
    /\ last_op = "update_pose_data"
    /\ pose_table["X"] = FIELD_WIDTH_M - half_diagonal
    /\ pose_table["Y"] = half_diagonal
    /\ robot_x = pose_table["X"]
    /\ robot_y = pose_table["Y"]

\* ------------------------------------------------------------------ C23
\* C23: in every state in which the tags are evaluated (the simulation is
\* active) the smoothed position is at least 0.2 m above every tag of the
\* layout, so its distance to each tag is strictly positive and the area
\* computation never divides by zero, whatever positions the telemetry
\* delivered before.
C23_TagDistancePositive ==
    /\ pc # "error"
    /\ simulation_active =>
          \A i \in DOMAIN apriltag_positions :
             /\ smoothed_y - apriltag_positions[i].y >= START_POS - APRILTAG_MARGIN_M
             /\ DistanceOf(i) > 0

\* An Active tick that brought the robot back to the corner next to the
\* bottom-left tag after the telemetry had it elsewhere: the smoothed
\* position is still on its way and the tag was evaluated at a positive
\* distance within range.
C23_Witness ==
    /\ ActiveTickDone
    /\ robot_x = half_diagonal
    /\ smoothed_x > half_diagonal
    /\ DistanceOf(1) > 0
    /\ DistanceOf(1) <= VISION_MAX_DISTANCE_M

\* ------------------------------------------------------------------ C24
\* The tags within maximum range of the smoothed position.
TagsInRange == {i \in DOMAIN apriltag_positions : DistanceOf(i) <= VISION_MAX_DISTANCE_M}

\* The tag set in the opposite iteration order.
ReversedTags ==
    [i \in 1..Len(apriltag_positions) |->
        apriltag_positions[Len(apriltag_positions) + 1 - i]]

\* C24: with the built-in layout at most one tag is within maximum range of
\* the smoothed position in any state in which tags are evaluated, and the
\* target an Active tick reports is the one the opposite iteration order of
\* the tag set would report.
C24_NeverTwoTagsInRange ==
    simulation_active =>
        /\ Cardinality(TagsInRange) <= 1
        /\ ActiveTickDone =>
              detected_target = ScanTags(ReversedTags, 1, NoneDict, smoothed_x,
                                         smoothed_y, turret_world_angle)

\* The robot, started within range of the bottom-left tag, has been taken
\* to the far end of the field: an Active tick reported the bottom-right
\* tag, the only one in range.
C24_Witness ==
    /\ ActiveTickDone
    /\ vision_table["HasTarget"] = TRUE
    /\ detected_target # NoneDict
    /\ TagsInRange = {2}

\* ------------------------------------------------------------------ C25
\* Everything a click may change, besides the record of the last operation.
ClickFrame ==
    <<pc, nticks, running, menu_active, alliance, simulation_active,
      odometry_active, apriltag_positions, poseVars, smoothedPoseVars, velVars,
      turretVars, targetVars, detected_target, last_update_time, tableVars,
      vision_table>>

\* C25: in every state the menu is shown exactly when no alliance is
\* selected; hence a click on an alliance button while the menu is shown is
\* accepted (the alliance is the button's, the simulation is active, the
\* menu is gone), and a click while the menu is not shown changes nothing.
C25_MenuIffNoAlliance ==
    /\ [](menu_active = (alliance = None))
    /\ [][\A hit \in {"red", "blue"} :
             MouseClick(hit) =>
                IF menu_active
                THEN /\ alliance' = hit
                     /\ simulation_active'
                     /\ ~menu_active'
                     /\ apriltag_positions' = initialize_apriltags(hit)
                ELSE UNCHANGED ClickFrame
         ]_vars

\* The menu is shown again after a reset and no alliance is selected: the
\* state in which the next click on a button must be accepted.
C25_Witness ==
    /\ menu_active
    /\ alliance = None
    /\ last_op = "escape"
    /\ odometry_active = "False"
    /\ simulation_active

\* ------------------------------------------------------------------ C26
\* C26: on the first Active tick after a selection, with the telemetry at
\* the start pose (0.5, 0.5, 0) or its keys absent, and no external
\* velocity, robot_vx, robot_vy and robot_omega are zero and the pose is
\* still the start pose.
C26_NoMotionOnEnteringActive ==
    (/\ last_op = "update_pose_data"
     /\ nticks = 0
     /\ NoExternalVelocity(pose_table))
    => /\ robot_vx = 0 /\ robot_vy = 0 /\ robot_omega = 0
       /\ robot_x = START_POS /\ robot_y = START_POS /\ robot_theta = 0

\* ------------------------------------------------------------------ C27
\* C27: on an Active tick with dt <= 0.001 s only the velocity derivation
\* is skipped: the pose and the previous-heading reference become the new
\* clamped sample, the smoothed position and heading take their step, and
\* the velocities keep their values; the velocity a later tick derives is
\* the difference to the pose of the tick before it alone, so it does not
\* contain the displacement of the stalled tick.
C27_StalledTickStillMovesPose ==
    [][(IsUpdateStep /\ simulation_active) =>
         LET dt == last_update_time' - last_update_time
             sample == clamp_to_field_bounds(GetNumber(pose_table', "X", START_POS),
                                             GetNumber(pose_table', "Y", START_POS))
             theta == GetNumber(pose_table', "Theta", 0)
         IN IF dt <= DT_GUARD
            THEN /\ robot_x' = sample[1] /\ robot_y' = sample[2]
                 /\ robot_theta' = theta /\ prev_theta' = theta
                 /\ Abs(10 * (robot_x' - smoothed_x') - 7 * (robot_x' - smoothed_x)) <= 5
                 /\ Abs(10 * (robot_y' - smoothed_y') - 7 * (robot_y' - smoothed_y)) <= 5
                 /\ smoothed_theta' - smoothed_theta =
                        RoundDiv(smoothing_factor
                                 * WrapClosed(theta - smoothed_theta, PI), 100)
                 /\ NoExternalVelocity(pose_table') =>
                        /\ robot_vx' = robot_vx
                        /\ robot_vy' = robot_vy
                        /\ robot_omega' = robot_omega
            ELSE NoExternalVelocity(pose_table') =>
                    /\ 2 * Abs(robot_vx' * dt - (sample[1] - robot_x) * 1000) <= dt
                    /\ 2 * Abs(robot_vy' * dt - (sample[2] - robot_y) * 1000) <= dt
                    /\ 2 * Abs(robot_omega' * dt
                               - WrapClosed(theta - prev_theta, PI) * 1000) <= dt
      ]_vars

\* The robot went from the start corner to (2.0, 1.0) during a stalled tick
\* and stayed there on the next, normal tick: the pose is (2.0, 1.0) and the
\* derived velocity is zero, the 1.5 m displacement appearing in no velocity.
C27_Witness ==
    /\ last_op = "update_pose_data"
    /\ simulation_active
    /\ nticks = 1
    /\ pose_table = [X |-> 2000, Y |-> 1000]
    /\ robot_x = 2000 /\ robot_y = 1000
    /\ last_update_time \in {DtNormal + t : t \in DtStalled}
    /\ robot_vx = 0 /\ robot_vy = 0

====
